---------------------------- MODULE Spec2Model ----------------------------
(***************************************************************************)
(* Model of the Solana/OpenBook orchestration code of the repository:     *)
(*   src/src/utils/contractParser.ts   (requestAirdropWithRetry,           *)
(*       createAccountInstruction, executeTransaction,                     *)
(*       generateAccountStructure, generateMarketKeypairs)                 *)
(*   src/src/app/api/accounts/route.ts (ACCOUNT_SIZES,                     *)
(*       getInstructionAccounts, generateAccountsForInstruction, GET)      *)
(*                                                                         *)
(* Three specifications share the variables:                               *)
(*   Spec        one call of executeTransaction                            *)
(*   SpecRetry   one call of requestAirdropWithRetry                       *)
(*   SpecResolve one GET request of the accounts route                     *)
(* Every await of the source is a suspension point: an action is the       *)
(* reply of the awaited call together with all the synchronous code that   *)
(* runs up to the next await.  The ledger network answers                  *)
(* nondeterministically (a value, or a thrown error).                      *)
(***************************************************************************)
EXTENDS Integers, Sequences, FiniteSets, TLC

(***************************************************************************)
(* Bounds of the model.                                                    *)
(***************************************************************************)
MaxRent == 2
MaxBlockhash == 2
MaxRetriesBound == 3
MaxAccounts == 2

(***************************************************************************)
(* Program constants.                                                      *)
(***************************************************************************)
LAMPORTS_PER_SOL == 1000000000
SETUP_SPACE == 65536
DEFAULT_SIZE == 1024
BASE_DELAY == 1000

(***************************************************************************)
(* Addresses.  A Keypair is identified by the number Keypair.generate()    *)
(* hands out (each call a fresh one); its publicKey is the address of     *)
(* that key.  Constant addresses carry their name; derived addresses       *)
(* (program-derived, associated token) carry what they are derived from.   *)
(***************************************************************************)
publicKey(k) == [tag |-> "key", n |-> k]
ConstAddr(s) == [tag |-> s, n |-> 0]
NullAddr == ConstAddr("null")
OPENBOOK_PROGRAM_ID == ConstAddr("opnb2LAfJYbRMAHHvqjCwQxanZn7ReEHp1k81EohpZb")
USDC_MINT == ConstAddr("Gh9ZwEmdLJ8DscKNTkTqPbNwLNNBjuSzaG9Vp2KGtKJr")
WSOL_MINT == ConstAddr("So11111111111111111111111111111111111111112")
ORACLE_A_DEVNET == ConstAddr("J83w4HKfqxwcq3BEMMkPFSppX3gqekLyLJBexebFVkix")
ORACLE_B_DEVNET == ConstAddr("Gnt27xtC473ZT2Mw5u8wZ68Z3gULkSTb5DuxJy7eJotD")
SystemProgramId == ConstAddr("11111111111111111111111111111111")
TOKEN_PROGRAM_ID == ConstAddr("TokenkegQfeZyiNwAJbNbGKPFXCWuBvf9Ss623VQ5DA")
ASSOCIATED_TOKEN_PROGRAM_ID == ConstAddr("ATokenGPvbdGVxr1b2hvZbsiqW5xWH25efTNsLJA8knL")
SYSVAR_RENT_PUBKEY == ConstAddr("SysvarRent111111111111111111111111111111111")
\* PublicKey.findProgramAddressSync([seed, key bytes], program): a pure
\* function of the seed and of the key the second seed is taken from.
findProgramAddress(seed, addr) == [tag |-> "pda:" \o seed, n |-> addr.n]
\* getAssociatedTokenAddress(mint, owner, true): a pure function of both.
getAssociatedTokenAddress(mint, owner) == [tag |-> "ata:" \o mint.tag \o ":" \o owner.tag, n |-> owner.n]

(***************************************************************************)
(* generateAccountStructure: the instruction catalog of the source.        *)
(***************************************************************************)
Field(name, isMut, isSigner, isOptional) ==
    [name |-> name, isMut |-> isMut, isSigner |-> isSigner, isOptional |-> isOptional]

commonAccounts ==
    << Field("systemProgram", FALSE, FALSE, FALSE),
       Field("tokenProgram", FALSE, FALSE, FALSE),
       Field("rent", FALSE, FALSE, FALSE) >>

createMarketFields ==
    << Field("market", TRUE, TRUE, FALSE),
       Field("marketAuthority", FALSE, FALSE, FALSE),
       Field("bids", TRUE, FALSE, FALSE),
       Field("asks", TRUE, FALSE, FALSE),
       Field("eventHeap", TRUE, FALSE, FALSE),
       Field("payer", TRUE, TRUE, FALSE),
       Field("marketBaseVault", TRUE, FALSE, FALSE),
       Field("marketQuoteVault", TRUE, FALSE, FALSE),
       Field("baseMint", FALSE, FALSE, FALSE),
       Field("quoteMint", FALSE, FALSE, FALSE),
       Field("oracleA", FALSE, FALSE, FALSE),
       Field("oracleB", FALSE, FALSE, FALSE),
       Field("collectFeeAdmin", FALSE, FALSE, FALSE),
       Field("openOrdersAdmin", FALSE, FALSE, TRUE),
       Field("consumeEventsAdmin", FALSE, FALSE, TRUE),
       Field("eventAuthority", FALSE, FALSE, FALSE) >>

placeOrderFields ==
    << Field("signer", FALSE, TRUE, FALSE),
       Field("openOrdersAccount", TRUE, FALSE, FALSE),
       Field("market", TRUE, FALSE, FALSE),
       Field("bids", TRUE, FALSE, FALSE),
       Field("asks", TRUE, FALSE, FALSE),
       Field("eventHeap", TRUE, FALSE, FALSE),
       Field("marketVault", TRUE, FALSE, FALSE),
       Field("userTokenAccount", TRUE, FALSE, FALSE) >>

\* accountMap[instructionName] || []
accountMap(instructionName) ==
    CASE instructionName = "createMarket" -> createMarketFields
      [] instructionName = "placeOrder" -> placeOrderFields
      [] OTHER -> << >>

\* The accounts of generateAccountStructure(instructionName).
generateAccountStructure(instructionName) ==
    accountMap(instructionName) \o commonAccounts

(***************************************************************************)
(* generateMarketKeypairs: five fresh keys, stored under their labels.     *)
(* k is the first unused key number; the keys are generated in the order   *)
(* payer, market, bids, asks, eventHeap.                                   *)
(***************************************************************************)
MarketRoles == <<"payer", "market", "bids", "asks", "eventHeap">>

generateMarketKeypairs(k) ==
    [r \in {MarketRoles[j] : j \in 1..Len(MarketRoles)} |->
        k + (CHOOSE j \in 1..Len(MarketRoles) : MarketRoles[j] = r) - 1]

NoKeypairs == [r \in {} |-> 0]

(***************************************************************************)
(* createAccountInstruction: SystemProgram.createAccount for the freshly   *)
(* generated key `account`, funded with `lamports` (the rent the network   *)
(* quoted).  As a TransactionInstruction its keys are the funding account  *)
(* and the new account, both signers and writable.                         *)
(***************************************************************************)
createAccountIx(payer, account, lamports, space, owner) ==
    [ kind |-> "createAccount",
      programId |-> SystemProgramId,
      fromPubkey |-> payer,
      newAccountPubkey |-> publicKey(account),
      lamports |-> lamports,
      space |-> space,
      owner |-> owner,
      keys |-> << [pubkey |-> payer, isSigner |-> TRUE, isWritable |-> TRUE],
                  [pubkey |-> publicKey(account), isSigner |-> TRUE, isWritable |-> TRUE] >> ]

NoIx == [kind |-> "none"]

VARIABLES
    \* ---- executeTransaction (Spec)
    pc,             \* the await executeTransaction is suspended at
    functionName,   \* its first argument
    nextKey,        \* the number of the next key Keypair.generate() returns
    keypair,        \* const keypair = generateMarketKeypairs()
    balance,        \* const balance = await connection.getBalance(...)
    account,        \* bidsAccount, asksAccount, eventHeapAccount (0: not yet)
    ixs,            \* bidsIx, asksIx, eventHeapIx
    blockhash,      \* const { blockhash } (0: not fetched)
    blockhashFetches, \* number of getLatestBlockhash replies received
    setupTx,        \* the setup transaction and its state on the ledger
    mainTx,         \* the createMarket transaction and its state on the ledger
    netCalls,       \* network requests issued so far
    error,          \* the error executeTransaction threw ("" while none)
    \* ---- requestAirdropWithRetry (SpecRetry)
    rpc,            \* the await requestAirdropWithRetry is suspended at
    maxRetries,     \* its maxRetries argument
    i,              \* the loop variable
    attempts,       \* calls of connection.requestAirdrop made so far
    airdrops,       \* the airdrop transactions requested, with their ledger state
    delays,         \* the delays passed to setTimeout, in order
    attemptLog,     \* how each attempt ended
    rresult,        \* what the call returned or threw
    \* ---- GET /api/accounts (SpecResolve)
    gpc,            \* the await the request is suspended at
    gfunction,      \* the `function` query parameter
    accounts,       \* the accounts of the instruction (from the IDL)
    idx,            \* position of the for loop over accounts
    idl,            \* the account lists of the instructions of /idl.json
    gkeypairs,      \* const keypairs = generateMarketKeypairs()
    newAccount,     \* the key the pending createAccountInstruction generated
    result,         \* the result object, as its entries in insertion order
    instructions,   \* the instructions object, as its entries in insertion order
    caught,         \* the error the catch clause of GET caught ("" while none)
    response        \* the HTTP response

execVars == <<pc, functionName, keypair, balance, account, ixs, blockhash,
              blockhashFetches, setupTx, mainTx, netCalls, error>>
retryVars == <<rpc, maxRetries, i, attempts, airdrops, delays, attemptLog, rresult>>
getVars == <<gpc, gfunction, idl, accounts, idx, gkeypairs, newAccount, result,
             instructions, caught, response>>
vars == <<execVars, retryVars, getVars, nextKey>>


(***************************************************************************)
(* Idle values: what the variables of a call hold while the call is not    *)
(* running (the other specifications leave them there).                    *)
(***************************************************************************)
NoTx == [instructions |-> << >>, feePayer |-> NullAddr, recentBlockhash |-> 0,
         signers |-> {}, status |-> "none"]
NewRoles == <<"bids", "asks", "eventHeap">>
NewRoleSet == {NewRoles[j] : j \in 1..Len(NewRoles)}

ExecIdle ==
    /\ pc = "idle" /\ functionName = "" /\ keypair = NoKeypairs /\ balance = -1
    /\ account = [r \in NewRoleSet |-> 0] /\ ixs = [r \in NewRoleSet |-> NoIx]
    /\ blockhash = 0 /\ blockhashFetches = 0
    /\ setupTx = NoTx /\ mainTx = NoTx /\ netCalls = 0 /\ error = ""

RetryIdle ==
    /\ rpc = "idle" /\ maxRetries = 0 /\ i = 0 /\ attempts = 0 /\ airdrops = << >>
    /\ delays = << >> /\ attemptLog = << >> /\ rresult = [kind |-> "idle"]

GetIdle ==
    /\ gpc = "idle" /\ gfunction = "" /\ idl = << >> /\ accounts = << >> /\ idx = 0
    /\ gkeypairs = NoKeypairs /\ newAccount = 0 /\ result = << >> /\ instructions = << >>
    /\ caught = "" /\ response = [status |-> 0]

(***************************************************************************)
(* executeTransaction(functionName, args, options)                         *)
(***************************************************************************)
FunctionNames == {"createMarket", "placeOrder", "closeMarket"}

\* The call: lines 359-374.  The keys are generated and the balance of the
\* payer is requested.
ExecEnter ==
    /\ pc = "entry"
    /\ keypair' = generateMarketKeypairs(nextKey)
    /\ nextKey' = nextKey + Len(MarketRoles)
    /\ netCalls' = netCalls + 1
    /\ pc' = "awaitBalance"
    /\ UNCHANGED <<retryVars, getVars, functionName, balance, account, ixs, blockhash, blockhashFetches,
                   setupTx, mainTx, error>>

payer == keypair["payer"]
marketKeypair == keypair["market"]
\* const [marketAuthority] = PublicKey.findProgramAddressSync(['Market', market], ...)
marketAuthority == findProgramAddress("Market", publicKey(marketKeypair))

\* catch (error) { console.error(...); throw error; }: lines 523-526
Throw(kind) ==
    /\ pc' = "threw"
    /\ error' = kind

\* The balances the network may report for the payer.
Balances == {0, LAMPORTS_PER_SOL - 1, LAMPORTS_PER_SOL, 2 * LAMPORTS_PER_SOL}

\* A faulty variant of insufficientBalance: only an empty account is refused.
insufficientBalanceEmpty(b) == b <= 0

\* if (balance < web3.LAMPORTS_PER_SOL): line 377
insufficientBalance(b) == b < LAMPORTS_PER_SOL

\* The balance reply: lines 374-394.  Below one SOL the call throws; otherwise
\* the first createAccountInstruction generates its key and asks for the rent.
BalanceReply ==
    /\ pc = "awaitBalance"
    /\ \/ /\ Throw("NetworkError")
          /\ UNCHANGED <<balance, account, nextKey, netCalls>>
       \/ \E b \in Balances :
            /\ balance' = b
            /\ IF insufficientBalance(b)
                 THEN /\ Throw("InsufficientBalance")
                      /\ UNCHANGED <<account, nextKey, netCalls>>
                 ELSE /\ account' = [account EXCEPT !["bids"] = nextKey]
                      /\ nextKey' = nextKey + 1
                      /\ netCalls' = netCalls + 1
                      /\ pc' = "awaitRent_bids"
                      /\ UNCHANGED error
    /\ UNCHANGED <<retryVars, getVars, functionName, keypair, ixs, blockhash, blockhashFetches,
                   setupTx, mainTx>>

\* setupTx.add(bidsIx, asksIx, eventHeapIx); setupTx.feePayer = payer: 411-413
BuildSetupTx(instrs) ==
    [instructions |-> <<instrs["bids"], instrs["asks"], instrs["eventHeap"]>>,
     feePayer |-> publicKey(payer), recentBlockhash |-> 0, signers |-> {},
     status |-> "built"]

\* The reply of getMinimumBalanceForRentExemption inside the
\* createAccountInstruction of role r: lines 341-351, then the next
\* createAccountInstruction (389-408) or the setup transaction (411-415).
RentReply(r) ==
    /\ pc = "awaitRent_" \o r
    /\ \/ /\ Throw("NetworkError")
          /\ UNCHANGED <<ixs, account, nextKey, netCalls, setupTx>>
       \/ \E rent \in 1..MaxRent :
            LET ix == createAccountIx(publicKey(payer), account[r], rent,
                                      SETUP_SPACE, OPENBOOK_PROGRAM_ID)
                ixs2 == [ixs EXCEPT ![r] = ix]
            IN /\ ixs' = ixs2
               /\ netCalls' = netCalls + 1
               /\ UNCHANGED error
               /\ CASE r = "bids" ->
                         /\ account' = [account EXCEPT !["asks"] = nextKey]
                         /\ nextKey' = nextKey + 1
                         /\ pc' = "awaitRent_asks"
                         /\ UNCHANGED setupTx
                    [] r = "asks" ->
                         /\ account' = [account EXCEPT !["eventHeap"] = nextKey]
                         /\ nextKey' = nextKey + 1
                         /\ pc' = "awaitRent_eventHeap"
                         /\ UNCHANGED setupTx
                    [] OTHER ->
                         /\ setupTx' = BuildSetupTx(ixs2)
                         /\ pc' = "awaitBlockhash"
                         /\ UNCHANGED <<account, nextKey>>
    /\ UNCHANGED <<retryVars, getVars, functionName, keypair, balance, blockhash, blockhashFetches, mainTx>>

\* A faulty variant of setupSigners: signing with the keys stored under the
\* role names by generateMarketKeypairs instead of the keys of the accounts
\* that are created.
setupSignersStored == {payer, keypair["bids"], keypair["asks"], keypair["eventHeap"]}

\* const setupSigners = [payer, bidsAccount, asksAccount, eventHeapAccount]
setupSigners == {payer, account["bids"], account["asks"], account["eventHeap"]}

\* The reply of getLatestBlockhash: lines 415-422.  The setup transaction
\* gets the blockhash, is signed and is sent.
BlockhashReply ==
    /\ pc = "awaitBlockhash"
    /\ \/ /\ Throw("NetworkError")
          /\ UNCHANGED <<blockhash, blockhashFetches, setupTx, netCalls>>
       \/ \E h \in 1..MaxBlockhash :
            /\ blockhash' = h
            /\ blockhashFetches' = blockhashFetches + 1
            /\ setupTx' = [setupTx EXCEPT !.recentBlockhash = h,
                                          !.signers = setupSigners,
                                          !.status = "signed"]
            /\ netCalls' = netCalls + 1
            /\ pc' = "awaitSendSetup"
            /\ UNCHANGED error
    /\ UNCHANGED <<retryVars, getVars, functionName, keypair, balance, account, ixs, nextKey, mainTx>>

\* The reply of sendRawTransaction(setupTx.serialize()): lines 422-423.
SendSetupReply ==
    /\ pc = "awaitSendSetup"
    /\ \/ /\ Throw("SendTransactionError")
          /\ UNCHANGED <<setupTx, netCalls>>
       \/ /\ setupTx' = [setupTx EXCEPT !.status = "submitted"]
          /\ netCalls' = netCalls + 1
          /\ pc' = "awaitConfirmSetup"
          /\ UNCHANGED error
    /\ UNCHANGED <<retryVars, getVars, functionName, keypair, balance, account, ixs, blockhash,
                   blockhashFetches, nextKey, mainTx>>

\* const marketAccounts = {...}: lines 427-461, a function of the slot name.
marketAccounts ==
    [ market |-> publicKey(marketKeypair),
      marketAuthority |-> marketAuthority,
      bids |-> publicKey(account["bids"]),
      asks |-> publicKey(account["asks"]),
      eventHeap |-> publicKey(account["eventHeap"]),
      payer |-> publicKey(payer),
      marketBaseVault |-> getAssociatedTokenAddress(WSOL_MINT, marketAuthority),
      marketQuoteVault |-> getAssociatedTokenAddress(USDC_MINT, marketAuthority),
      baseMint |-> WSOL_MINT,
      quoteMint |-> USDC_MINT,
      systemProgram |-> SystemProgramId,
      tokenProgram |-> TOKEN_PROGRAM_ID,
      associatedTokenProgram |-> ASSOCIATED_TOKEN_PROGRAM_ID,
      rent |-> SYSVAR_RENT_PUBKEY,
      oracleA |-> ORACLE_A_DEVNET,
      oracleB |-> ORACLE_B_DEVNET,
      collectFeeAdmin |-> publicKey(payer),
      openOrdersAdmin |-> NullAddr,
      consumeEventsAdmin |-> NullAddr,
      closeMarketAdmin |-> NullAddr,
      eventAuthority |-> findProgramAddress("__event_authority", OPENBOOK_PROGRAM_ID),
      program |-> OPENBOOK_PROGRAM_ID ]

\* The reply of confirmTransaction(setupSignature): lines 423-481.  It throws
\* when the confirmation times out.  Otherwise it resolves to the signature
\* result, whose err is set when the ledger processed the transaction and it
\* failed; the call site discards the value, so both resolutions continue
\* with the market accounts and the fetch of the IDL.
ConfirmSetupReply ==
    /\ pc = "awaitConfirmSetup"
    /\ \/ /\ Throw("TimedOut")
          /\ UNCHANGED <<setupTx, netCalls>>
       \/ \E st \in {"confirmed", "failed"} :
            /\ setupTx' = [setupTx EXCEPT !.status = st]
            /\ netCalls' = netCalls + 1
            /\ pc' = "awaitIdl"
            /\ UNCHANGED error
    /\ UNCHANGED <<retryVars, getVars, functionName, keypair, balance, account, ixs, blockhash,
                   blockhashFetches, nextKey, mainTx>>

\* program.methods.createMarket(...).accounts({...}).instruction(): 484-501.
\* One account meta per account of the createMarket instruction, in its
\* order, with the address the accounts object gives for its name.
createMarketIx ==
    LET fields == generateAccountStructure("createMarket")
    IN [ kind |-> "createMarket",
         programId |-> OPENBOOK_PROGRAM_ID,
         keys |-> [j \in 1..Len(fields) |->
                     [pubkey |-> marketAccounts[fields[j].name],
                      isSigner |-> fields[j].isSigner,
                      isWritable |-> fields[j].isMut]] ]

\* A faulty variant of mainRecentBlockhash: another blockhash than the one
\* the setup transaction was given, as a second getLatestBlockhash returns.
mainRecentBlockhashOther == (blockhash % MaxBlockhash) + 1

\* transaction.recentBlockhash = blockhash: line 506, the const of line 415
mainRecentBlockhash == blockhash

\* const signers = [payer, marketKeypair]: line 509
mainSigners == {payer, marketKeypair}

\* The reply of fetch('/idl.json'): lines 481-518.  The instruction is built,
\* put in a transaction with the blockhash fetched for the setup
\* transaction, signed and sent.
IdlReply ==
    /\ pc = "awaitIdl"
    /\ \/ /\ Throw("IdlError")
          /\ UNCHANGED <<mainTx, netCalls>>
       \/ /\ mainTx' = [instructions |-> <<createMarketIx>>,
                        feePayer |-> publicKey(payer),
                        recentBlockhash |-> mainRecentBlockhash,
                        signers |-> mainSigners,
                        status |-> "signed"]
          /\ netCalls' = netCalls + 1
          /\ pc' = "awaitSendMain"
          /\ UNCHANGED error
    /\ UNCHANGED <<retryVars, getVars, functionName, keypair, balance, account, ixs, blockhash,
                   blockhashFetches, nextKey, setupTx>>

\* The reply of sendRawTransaction(rawTx, ...): lines 515-520.
SendMainReply ==
    /\ pc = "awaitSendMain"
    /\ \/ /\ Throw("SendTransactionError")
          /\ UNCHANGED <<mainTx, netCalls>>
       \/ /\ mainTx' = [mainTx EXCEPT !.status = "submitted"]
          /\ netCalls' = netCalls + 1
          /\ pc' = "awaitConfirmMain"
          /\ UNCHANGED error
    /\ UNCHANGED <<retryVars, getVars, functionName, keypair, balance, account, ixs, blockhash,
                   blockhashFetches, nextKey, setupTx>>

\* The reply of confirmTransaction(signature, 'confirmed'): lines 520-521.
ConfirmMainReply ==
    /\ pc = "awaitConfirmMain"
    /\ \/ /\ Throw("TimedOut")
          /\ UNCHANGED mainTx
       \/ \E st \in {"confirmed", "failed"} :
            /\ mainTx' = [mainTx EXCEPT !.status = st]
            /\ pc' = "returned"
            /\ UNCHANGED error
    /\ UNCHANGED <<retryVars, getVars, functionName, keypair, balance, account, ixs, blockhash,
                   blockhashFetches, nextKey, setupTx, netCalls>>

Init ==
    /\ pc = "entry"
    /\ functionName \in FunctionNames
    /\ nextKey = 1
    /\ keypair = NoKeypairs /\ balance = -1
    /\ account = [r \in NewRoleSet |-> 0] /\ ixs = [r \in NewRoleSet |-> NoIx]
    /\ blockhash = 0 /\ blockhashFetches = 0
    /\ setupTx = NoTx /\ mainTx = NoTx /\ netCalls = 0 /\ error = ""
    /\ RetryIdle
    /\ GetIdle

Next ==
    \/ ExecEnter
    \/ BalanceReply
    \/ \E r \in NewRoleSet : RentReply(r)
    \/ BlockhashReply
    \/ SendSetupReply
    \/ ConfirmSetupReply
    \/ IdlReply
    \/ SendMainReply
    \/ ConfirmMainReply

Spec == Init /\ [][Next]_vars


(***************************************************************************)
(* requestAirdropWithRetry(connection, address, amount, maxRetries = 3)    *)
(***************************************************************************)
\* The errors the awaited calls throw.  The catch clause of line 323 takes
\* every one of them the same way; which of them a retry can cure is a
\* property of the error, not something the code looks at.
TransientErrors == {"TimedOut", "BalanceNotUpdated"}
NonTransientErrors == {"Rejected"}

\* A faulty variant of loopContinues: one iteration too many.
loopContinuesInclusive(n, max) == n <= max

\* for (...; i < maxRetries; ...): line 305
loopContinues(n, max) == n < max

\* Faulty variants of backoffDelay: a delay that halves, and one that grows
\* linearly from zero.
backoffDelayHalving(n) == BASE_DELAY \div 2^n
backoffDelayLinear(n) == BASE_DELAY * 2 * n

\* 1000 * Math.pow(2, i): line 327
backoffDelay(n) == BASE_DELAY * 2^n

\* The head of the for loop with the loop variable at n: the next attempt
\* starts with connection.requestAirdrop (line 307), or the loop is left and
\* line 330 throws.
LoopHead(n) ==
    /\ i' = n
    /\ IF loopContinues(n, maxRetries)
         THEN /\ attempts' = attempts + 1
              /\ rpc' = "awaitAirdrop"
              /\ UNCHANGED rresult
         ELSE /\ rpc' = "done"
              /\ rresult' = [kind |-> "threw", error |-> "AllAirdropAttemptsFailed"]
              /\ UNCHANGED attempts

RetryEnter ==
    /\ rpc = "entry"
    /\ LoopHead(0)
    /\ UNCHANGED <<execVars, getVars, nextKey, maxRetries, airdrops, delays, attemptLog>>

\* if (i === maxRetries - 1) throw error: line 325
isLastIteration(n, max) == n = max - 1

\* catch (error): lines 323-328.  The last iteration rethrows; every other
\* one sleeps 1000 * 2^i ms.
Catch(e) ==
    /\ attemptLog' = Append(attemptLog, e)
    /\ IF isLastIteration(i, maxRetries)
         THEN /\ rpc' = "done"
              /\ rresult' = [kind |-> "threw", error |-> e]
              /\ UNCHANGED delays
         ELSE /\ delays' = Append(delays, backoffDelay(i))
              /\ rpc' = "sleeping"
              /\ UNCHANGED rresult

\* The reply of connection.requestAirdrop: lines 307-310.  A signature names
\* a new airdrop transaction on the ledger.
AirdropReply ==
    /\ rpc = "awaitAirdrop"
    /\ \/ /\ airdrops' = Append(airdrops, [attempt |-> attempts, status |-> "submitted"])
          /\ rpc' = "awaitBlockhash"
          /\ UNCHANGED <<delays, attemptLog, rresult>>
       \/ \E e \in {"TimedOut", "Rejected"} :
            /\ Catch(e)
            /\ UNCHANGED airdrops
    /\ UNCHANGED <<execVars, getVars, nextKey, maxRetries, i, attempts>>

\* The reply of connection.getLatestBlockhash: lines 310-311.
RetryBlockhashReply ==
    /\ rpc = "awaitBlockhash"
    /\ \/ /\ rpc' = "awaitConfirm"
          /\ UNCHANGED <<delays, attemptLog, rresult>>
       \/ Catch("TimedOut")
    /\ UNCHANGED <<execVars, getVars, nextKey, maxRetries, i, attempts, airdrops>>

\* The reply of connection.confirmTransaction: lines 311-317.  It throws on
\* a timeout; otherwise it resolves (the airdrop is confirmed, or was
\* processed and failed: the value is not looked at) and the balance is read.
RetryConfirmReply ==
    /\ rpc = "awaitConfirm"
    /\ \/ \E st \in {"confirmed", "failed"} :
            /\ airdrops' = [airdrops EXCEPT ![Len(airdrops)].status = st]
            /\ rpc' = "awaitBalance"
            /\ UNCHANGED <<delays, attemptLog, rresult>>
       \/ /\ Catch("TimedOut")
          /\ UNCHANGED airdrops
    /\ UNCHANGED <<execVars, getVars, nextKey, maxRetries, i, attempts>>

\* The reply of connection.getBalance: lines 317-322.  A positive balance
\* returns the signature of this attempt; a zero balance throws.
RetryBalanceReply ==
    /\ rpc = "awaitBalance"
    /\ \/ \E b \in {0, LAMPORTS_PER_SOL} :
            IF b > 0
              THEN /\ rpc' = "done"
                   /\ rresult' = [kind |-> "returned", signature |-> Len(airdrops)]
                   /\ attemptLog' = Append(attemptLog, "Success")
                   /\ UNCHANGED delays
              ELSE Catch("BalanceNotUpdated")
       \/ Catch("TimedOut")
    /\ UNCHANGED <<execVars, getVars, nextKey, maxRetries, i, attempts, airdrops>>

\* The timer of line 327 fires: i++ and the loop test.
WakeUp ==
    /\ rpc = "sleeping"
    /\ LoopHead(i + 1)
    /\ UNCHANGED <<execVars, getVars, nextKey, maxRetries, airdrops, delays, attemptLog>>

InitRetry ==
    /\ rpc = "entry"
    /\ maxRetries \in (-1)..MaxRetriesBound
    /\ i = 0 /\ attempts = 0 /\ airdrops = << >> /\ delays = << >>
    /\ attemptLog = << >> /\ rresult = [kind |-> "running"]
    /\ nextKey = 1
    /\ ExecIdle
    /\ GetIdle

NextRetry ==
    \/ RetryEnter
    \/ AirdropReply
    \/ RetryBlockhashReply
    \/ RetryConfirmReply
    \/ RetryBalanceReply
    \/ WakeUp

SpecRetry == InitRetry /\ [][NextRetry]_vars


(***************************************************************************)
(* route.ts: ACCOUNT_SIZES and the size of a new account.                  *)
(***************************************************************************)
ACCOUNT_SIZES ==
    [ BIDS |-> 65536,
      ASKS |-> 65536,
      EVENT_HEAP |-> 65536,
      OPEN_ORDERS |-> 8192,
      OPEN_ORDERS_INDEXER |-> 4096,
      MARKET |-> 1024,
      STUB_ORACLE |-> 512 ]

LowerCaseLetters == "abcdefghijklmnopqrstuvwxyz"
UpperCaseLetters == "ABCDEFGHIJKLMNOPQRSTUVWXYZ"

\* One character of String.prototype.toUpperCase: a lower-case letter
\* becomes its upper-case letter, every other character stays.
upperChar(c) ==
    IF \E j \in 1..Len(LowerCaseLetters) : SubSeq(LowerCaseLetters, j, j) = c
      THEN LET j == CHOOSE j \in 1..Len(LowerCaseLetters) :
                        SubSeq(LowerCaseLetters, j, j) = c
           IN SubSeq(UpperCaseLetters, j, j)
      ELSE c

RECURSIVE toUpperCase(_)
toUpperCase(s) ==
    IF Len(s) = 0 THEN ""
    ELSE upperChar(SubSeq(s, 1, 1)) \o toUpperCase(SubSeq(s, 2, Len(s)))

\* A faulty variant of sizeFor: the table entry alone, without the default
\* (a name the table misses gets no space).
sizeForNoDefault(name) ==
    LET key == toUpperCase(name)
    IN IF key \in DOMAIN ACCOUNT_SIZES THEN ACCOUNT_SIZES[key] ELSE 0

\* ACCOUNT_SIZES[acc.name.toUpperCase()] || 1024: line 51
sizeFor(name) ==
    LET key == toUpperCase(name)
    IN IF key \in DOMAIN ACCOUNT_SIZES /\ ACCOUNT_SIZES[key] # 0
         THEN ACCOUNT_SIZES[key]
         ELSE DEFAULT_SIZE

(***************************************************************************)
(* Objects (Record<string, any>): the entries in insertion order.  Setting *)
(* a key the object has keeps the entry's place and replaces its value.    *)
(***************************************************************************)
HasKey(obj, k) == \E j \in 1..Len(obj) : obj[j].key = k
Put(obj, k, v) ==
    IF HasKey(obj, k)
      THEN [j \in 1..Len(obj) |-> IF obj[j].key = k THEN [key |-> k, value |-> v] ELSE obj[j]]
      ELSE Append(obj, [key |-> k, value |-> v])
Keys(obj) == [j \in 1..Len(obj) |-> obj[j].key]
Get(obj, k) == obj[CHOOSE j \in 1..Len(obj) : obj[j].key = k].value
Undefined == ConstAddr("undefined")

(***************************************************************************)
(* GET /api/accounts?function=...                                          *)
(***************************************************************************)
gpayer == gkeypairs["payer"]

\* Lines 61-63: the address of an account that is not mutable.
nonMutableAddress(acc) ==
    IF acc.isSigner THEN publicKey(gpayer)
    ELSE IF acc.name \in DOMAIN gkeypairs THEN publicKey(gkeypairs[acc.name])
    ELSE publicKey(gpayer)

\* A faulty variant of branchOf: the flags are looked at before the name.
branchOfFlagsFirst(acc) ==
    IF acc.isMut THEN "create"
    ELSE IF acc.name = "systemProgram" THEN "systemProgram"
    ELSE IF acc.name = "tokenProgram" THEN "tokenProgram"
    ELSE "existing"

\* The branch of the loop body an account takes: the if statements of lines
\* 40, 44 and 49, in their order, and the else of line 60.
branchOf(acc) ==
    IF acc.name = "systemProgram" THEN "systemProgram"
    ELSE IF acc.name = "tokenProgram" THEN "tokenProgram"
    ELSE IF acc.isMut THEN "create"
    ELSE "existing"

\* The for loop of generateAccountsForInstruction (lines 39-65) from
\* position j with the result object res, up to the first account that
\* needs a new account (where createAccountInstruction awaits the rent) or
\* to the end of the accounts.
RECURSIVE runLoop(_, _, _)
runLoop(accs, j, res) ==
    IF j > Len(accs) THEN [idx |-> j, result |-> res]
    ELSE LET acc == accs[j]
             branch == branchOf(acc)
         IN IF branch = "systemProgram"
              THEN runLoop(accs, j + 1, Put(res, acc.name, SystemProgramId))
            ELSE IF branch = "tokenProgram"
              THEN runLoop(accs, j + 1, Put(res, acc.name, TOKEN_PROGRAM_ID))
            ELSE IF branch = "create"
              THEN [idx |-> j, result |-> res]
            ELSE runLoop(accs, j + 1, Put(res, acc.name, nonMutableAddress(acc)))

\* return { ...result, instructions: ... }: lines 67-70
returnValue(res, instrs) ==
    Put(res, "instructions",
        IF Len(instrs) > 0 THEN [tag |-> "object", n |-> 0, entries |-> instrs]
        ELSE Undefined)

\* NextResponse.json({ success: true, data: result }): lines 107-110.  The
\* JSON text of an object leaves out the entries whose value is undefined.
jsonBody(obj) == SelectSeq(obj, LAMBDA e : e.value # Undefined)

\* catch (error): lines 112-118.  The error e is logged; the response is the
\* same for every error.
Respond500(e) ==
    /\ gpc' = "done"
    /\ caught' = e
    /\ response' = [status |-> 500, error |-> "Failed to generate accounts"]

\* The loop goes on from position j: to the next createAccountInstruction,
\* which generates its key and asks for the rent, or to the return of
\* generateAccountsForInstruction and the response of GET (lines 107-110).
Continue(accs, j, res, instrs) ==
    LET r == runLoop(accs, j, res)
    IN /\ idx' = r.idx
       /\ result' = r.result
       /\ instructions' = instrs
       /\ IF r.idx > Len(accs)
            THEN /\ gpc' = "done"
                 /\ response' = [status |-> 200,
                                  data |-> jsonBody(returnValue(r.result, instrs))]
                 /\ UNCHANGED <<newAccount, nextKey, caught>>
            ELSE /\ newAccount' = nextKey
                 /\ nextKey' = nextKey + 1
                 /\ gpc' = "awaitRent"
                 /\ UNCHANGED <<response, caught>>

\* The request arrives: lines 74-94.
GetEnter ==
    /\ gpc = "entry"
    /\ IF gfunction = ""
         THEN /\ gpc' = "done"
              /\ response' = [status |-> 400, error |-> "Function name is required"]
              /\ UNCHANGED <<gkeypairs, nextKey>>
         ELSE /\ gkeypairs' = generateMarketKeypairs(nextKey)
              /\ nextKey' = nextKey + Len(MarketRoles)
              /\ gpc' = "awaitIdl"
              /\ UNCHANGED response
    /\ UNCHANGED <<execVars, retryVars, gfunction, idl, accounts, idx, newAccount,
                   result, instructions, caught>>

\* The reply of fetch('http://localhost:3000/idl.json'): lines 94-105, with
\* getInstructionAccounts (22-28) and the start of the loop.
GetIdlReply ==
    /\ gpc = "awaitIdl"
    /\ \/ /\ Respond500("FetchError")
          /\ UNCHANGED <<accounts, idx, newAccount, result, instructions, nextKey>>
       \/ IF gfunction \in DOMAIN idl
            THEN /\ accounts' = idl[gfunction]
                 /\ Continue(idl[gfunction], 1, << >>, << >>)
            ELSE /\ Respond500("InstructionNotFound")
                 /\ UNCHANGED <<accounts, idx, newAccount, result, instructions, nextKey>>
    /\ UNCHANGED <<execVars, retryVars, gfunction, idl, gkeypairs>>

\* The reply of getMinimumBalanceForRentExemption inside
\* createAccountInstruction: lines 52-59, and the loop goes on.
GetRentReply ==
    /\ gpc = "awaitRent"
    /\ \/ /\ Respond500("NetworkError")
          /\ UNCHANGED <<idx, newAccount, result, instructions, nextKey>>
       \/ \E rent \in 1..MaxRent :
            LET acc == accounts[idx]
                ix == createAccountIx(publicKey(gpayer), newAccount, rent,
                                      sizeFor(acc.name), OPENBOOK_PROGRAM_ID)
            IN Continue(accounts, idx + 1,
                        Put(result, acc.name, publicKey(newAccount)),
                        Put(instructions, acc.name \o "Ix", ix))
    /\ UNCHANGED <<execVars, retryVars, gfunction, idl, accounts, gkeypairs>>

\* The account requirements a custom instruction of the IDL is made of.
CustomNames == {"systemProgram", "tokenProgram", "bids", "eventHeap", "quoteMint", "payer"}
CustomFields ==
    {Field(n, m, sg, FALSE) : n \in CustomNames, m \in BOOLEAN, sg \in BOOLEAN}
    \cup {Field("openOrdersAdmin", m, sg, TRUE) : m \in BOOLEAN, sg \in BOOLEAN}
Descriptors == UNION {[1..m -> CustomFields] : m \in 0..MaxAccounts}

\* The IDL: the two instructions of the catalog and one custom instruction.
Idl(custom) ==
    [ createMarket |-> generateAccountStructure("createMarket"),
      placeOrder |-> generateAccountStructure("placeOrder"),
      custom |-> custom ]

InitResolve ==
    /\ gpc = "entry"
    /\ gfunction \in {"", "createMarket", "placeOrder", "custom", "closeMarket"}
    /\ \E c \in Descriptors :
          /\ gfunction # "custom" => c = << >>
          /\ idl = Idl(c)
    /\ accounts = << >> /\ idx = 0 /\ gkeypairs = NoKeypairs /\ newAccount = 0
    /\ result = << >> /\ instructions = << >> /\ caught = ""
    /\ response = [status |-> 0]
    /\ nextKey = 1
    /\ ExecIdle
    /\ RetryIdle

NextResolve ==
    \/ GetEnter
    \/ GetIdlReply
    \/ GetRentReply

SpecResolve == InitResolve /\ [][NextResolve]_vars

(***************************************************************************)
(* Two callers at once: a call of executeTransaction and a GET request run *)
(* interleaved at their awaits.  Each of them asks generateMarketKeypairs  *)
(* for its keys when it starts (contractParser.ts:369, route.ts:86), and   *)
(* the request resolves a descriptor whose one account is the payer.  The  *)
(* two share nothing but the key generator.                                *)
(***************************************************************************)
PayerDescriptors == {<<Field("payer", m, sg, FALSE)>> : m \in BOOLEAN, sg \in BOOLEAN}

InitConcurrent ==
    /\ pc = "entry"
    /\ functionName = "createMarket"
    /\ keypair = NoKeypairs /\ balance = -1
    /\ account = [r \in NewRoleSet |-> 0] /\ ixs = [r \in NewRoleSet |-> NoIx]
    /\ blockhash = 0 /\ blockhashFetches = 0
    /\ setupTx = NoTx /\ mainTx = NoTx /\ netCalls = 0 /\ error = ""
    /\ gpc = "entry"
    /\ gfunction = "custom"
    /\ \E c \in PayerDescriptors : idl = Idl(c)
    /\ accounts = << >> /\ idx = 0 /\ gkeypairs = NoKeypairs /\ newAccount = 0
    /\ result = << >> /\ instructions = << >> /\ caught = ""
    /\ response = [status |-> 0]
    /\ nextKey = 1
    /\ RetryIdle

NextConcurrent ==
    \/ ExecEnter
    \/ BalanceReply
    \/ \E r \in NewRoleSet : RentReply(r)
    \/ BlockhashReply
    \/ SendSetupReply
    \/ ConfirmSetupReply
    \/ IdlReply
    \/ SendMainReply
    \/ ConfirmMainReply
    \/ GetEnter
    \/ GetIdlReply
    \/ GetRentReply

SpecConcurrent == InitConcurrent /\ [][NextConcurrent]_vars

(***************************************************************************)
(*                              Properties                                 *)
(***************************************************************************)
Range(seq) == {seq[j] : j \in 1..Len(seq)}
OnLedger(tx) == tx.status \in {"submitted", "confirmed", "failed"}
Signed(tx) == tx.status \in {"signed", "submitted", "confirmed", "failed"}

\* The addresses a transaction needs a signature of: its fee payer and every
\* account one of its instructions marks as signer.
RequiredSignerAddrs(tx) ==
    {tx.feePayer} \cup
    UNION { {ix.keys[j].pubkey : j \in {m \in 1..Len(ix.keys) : ix.keys[m].isSigner}} :
            ix \in Range(tx.instructions) }

SignersPresent(tx) ==
    \A a \in RequiredSignerAddrs(tx) : \E k \in tx.signers : publicKey(k) = a

(* C1 (as claimed): provisioning barrier.  Whenever the createMarket        *)
(* transaction has been submitted, the setup transaction that creates      *)
(* bids, asks and eventHeap has been submitted and is confirmed: it is     *)
(* never unsubmitted, unconfirmed or failed.                               *)
C1_ProvisioningBarrier ==
    OnLedger(mainTx) => setupTx.status = "confirmed"

(* C10: signer presence.  In the setup and in the main transaction, once   *)
(* signed (and so when submitted), every address that must sign (the fee   *)
(* payer, each newly created account, each signer-flagged createMarket     *)
(* account) is the address of a key the transaction is signed with.        *)
C10_SignerPresence ==
    /\ Signed(setupTx) => SignersPresent(setupTx)
    /\ Signed(mainTx) => SignersPresent(mainTx)

\* Both transactions are on the ledger; the setup transaction needs the
\* payer and the three new accounts, the main one the payer and the market.
C10_Witness ==
    /\ OnLedger(setupTx) /\ OnLedger(mainTx)
    /\ Cardinality(RequiredSignerAddrs(setupTx)) = 4
    /\ RequiredSignerAddrs(mainTx) = {publicKey(payer), publicKey(marketKeypair)}
    /\ publicKey(account["eventHeap"]) \in RequiredSignerAddrs(setupTx)

\* How the attempts ended: all but the last failed for a transient reason,
\* the last one succeeded.
RetriedToSuccess ==
    /\ Len(attemptLog) >= 1
    /\ attemptLog[Len(attemptLog)] = "Success"
    /\ \A n \in 1..(Len(attemptLog) - 1) : attemptLog[n] \in TransientErrors

(* C5: backoff bound.  For maxRetries >= 1, whatever the attempts do, at   *)
(* most maxRetries calls of requestAirdrop are made, and the delays        *)
(* between consecutive attempts never decrease: each is twice the one      *)
(* before.                                                                 *)
C5_BackoffBound ==
    maxRetries >= 1 =>
        /\ attempts <= maxRetries
        /\ \A n \in 1..(Len(delays) - 1) :
              /\ delays[n] <= delays[n + 1]
              /\ delays[n + 1] = 2 * delays[n]

\* Every attempt is used up and at least two delays were taken.
C5_Witness ==
    /\ maxRetries >= 3
    /\ attempts = maxRetries
    /\ Len(delays) >= 2
    /\ rpc = "done"

(* C6: retry to success.  When k attempts fail transiently (a timeout, or  *)
(* a balance that is not visible yet) and the next succeeds, exactly k+1   *)
(* attempts were made, the signature returned is the one of the last       *)
(* attempt, and the delay taken after attempt n was 1000 * 2^(n-1).        *)
C6_RetryToSuccess ==
    RetriedToSuccess =>
        LET k == Len(attemptLog) - 1
        IN /\ k < maxRetries
           /\ attempts = k + 1
           /\ rresult.kind = "returned"
           /\ airdrops[rresult.signature].attempt = k + 1
           /\ Len(delays) = k
           /\ \A n \in 1..k : delays[n] = BASE_DELAY * 2^(n - 1)

\* Two transient failures (one of each kind), then success: three attempts.
C6_Witness ==
    /\ attemptLog = <<"TimedOut", "BalanceNotUpdated", "Success">>
    /\ attempts = 3
    /\ rresult.kind = "returned"

(* C7 (as claimed): idempotent retry.  No airdrop is requested after an    *)
(* earlier airdrop of the same call has reached confirmed: a confirmed     *)
(* airdrop is always the last one requested.                               *)
C7_IdempotentRetry ==
    \A a \in DOMAIN airdrops :
        airdrops[a].status = "confirmed" => a = Len(airdrops)

(* C8 (as claimed): non-transient rejection.  Once an attempt is rejected  *)
(* for a non-transient reason the call has failed with that attempt: no    *)
(* delay is taken after it and no further attempt is made.                 *)
C8_NonTransientRejection ==
    \A n \in DOMAIN attemptLog :
        attemptLog[n] \in NonTransientErrors =>
            /\ rresult.kind = "threw"
            /\ attempts = n
            /\ Len(delays) < n

\* The role an entry of the instructions object was created for: its key
\* without the "Ix" suffix.
RoleOfIx(key) == SubSeq(key, 1, Len(key) - 2)

RECURSIVE withoutUnderscores(_)
withoutUnderscores(s) ==
    IF Len(s) = 0 THEN ""
    ELSE (IF SubSeq(s, 1, 1) = "_" THEN "" ELSE SubSeq(s, 1, 1))
         \o withoutUnderscores(SubSeq(s, 2, Len(s)))

\* A role names an entry of the size table when they are the same words:
\* bids and BIDS, eventHeap and EVENT_HEAP, openOrders and OPEN_ORDERS.
NamesEntry(role, key) == toUpperCase(role) = withoutUnderscores(key)

\* No two requirements of the descriptor share a name.
DistinctNames(accs) ==
    \A a, b \in 1..Len(accs) : accs[a].name = accs[b].name => a = b

(* C2 (as claimed): precedence.  An address supplied for a role that would *)
(* otherwise be generated (a mutable role, or a role that is neither       *)
(* mutable nor signer) is used unchanged and no create-account instruction *)
(* is attached to that role: once the requirement is resolved, the result  *)
(* holds the address of the supplied key for it, and the instructions hold *)
(* nothing for it.                                                         *)
C2_Precedence ==
    \A j \in 1..(idx - 1) :
        LET acc == accounts[j]
        IN /\ DistinctNames(accounts)
           /\ acc.name \in DOMAIN gkeypairs
           /\ acc.name \notin {"systemProgram", "tokenProgram"}
           /\ acc.isMut \/ ~acc.isSigner
           => /\ Get(result, acc.name) = publicKey(gkeypairs[acc.name])
              /\ ~HasKey(instructions, acc.name \o "Ix")

(* C3 (as claimed): completeness.  The object a successful request returns *)
(* has exactly one entry per account requirement, in declared order        *)
(* (also when two requirements share a name), and no other entry.          *)
C3_Completeness ==
    response.status = 200 =>
        Keys(response.data) = [j \in 1..Len(accounts) |-> accounts[j].name]

(* C4 (as claimed): table sizing.  When createMarket is resolved, every    *)
(* account that is created for a role naming an entry of ACCOUNT_SIZES     *)
(* (bids, asks, eventHeap, market, ...) is created with that entry's size. *)
C4_TableSizing ==
    gfunction = "createMarket" =>
        \A j \in 1..Len(instructions) : \A key \in DOMAIN ACCOUNT_SIZES :
            NamesEntry(RoleOfIx(instructions[j].key), key) =>
                instructions[j].value.space = ACCOUNT_SIZES[key]


\* The names generateAccountStructure has accounts of its own for.
CatalogNames == {"createMarket", "placeOrder"}

(* C11 (as claimed): one key per role.  Within a call of executeTransaction *)
(* a role has one key: the key created for bids, asks or eventHeap is the  *)
(* key stored for that role by generateMarketKeypairs, and the address the *)
(* main transaction uses for bids, asks, eventHeap, market and payer is    *)
(* the address of the key stored for that role.                            *)
C11_OneKeyPerRole ==
    /\ \A r \in NewRoleSet : account[r] # 0 => account[r] = keypair[r]
    /\ Signed(mainTx) =>
          \A r \in Range(MarketRoles) : marketAccounts[r] = publicKey(keypair[r])

(* C13 (as claimed): unknown instruction.  When executeTransaction is      *)
(* called with an instruction name that the catalog does not have, it      *)
(* fails instead of submitting a transaction: neither the setup nor the    *)
(* main transaction reaches the ledger, and the call does not return a     *)
(* signature.                                                              *)
C13_UnknownInstruction ==
    functionName \notin CatalogNames =>
        /\ ~OnLedger(setupTx)
        /\ ~OnLedger(mainTx)
        /\ pc # "returned"

(* C20: funding guard.  When the balance read for the payer at the start   *)
(* is below one SOL, executeTransaction has thrown the insufficient-       *)
(* balance error, no transaction was built, signed or submitted, no key of *)
(* a new account was generated, and the balance request is the only        *)
(* request that was made: no airdrop, no retry.                            *)
C20_FundingGuard ==
    (balance >= 0 /\ balance < LAMPORTS_PER_SOL) =>
        /\ pc = "threw" /\ error = "InsufficientBalance"
        /\ setupTx = NoTx /\ mainTx = NoTx
        /\ \A r \in NewRoleSet : account[r] = 0
        /\ netCalls = 1
        /\ rpc = "idle" /\ attempts = 0 /\ airdrops = << >>

\* The payer holds one lamport less than one SOL and the call has thrown.
C20_Witness ==
    /\ balance = LAMPORTS_PER_SOL - 1
    /\ pc = "threw"
    /\ error = "InsufficientBalance"


(* C12 (as claimed): concurrent key requests.  When a call of              *)
(* executeTransaction and a GET request that run at the same time have     *)
(* both asked for the payer, one key was generated for the payer and both  *)
(* hold it, in every interleaving.                                         *)
C12_ConcurrentKeyRequests ==
    (keypair # NoKeypairs /\ gkeypairs # NoKeypairs) =>
        keypair["payer"] = gkeypairs["payer"]

(* C14 (as claimed): no swallowed errors.  A GET request that failed        *)
(* answers with an error that identifies the kind of the failure: the      *)
(* error of a 500 response is the error that was caught (the IDL could not *)
(* be fetched, the instruction is not in the IDL, the rent request         *)
(* failed), never one text for all of them.                                *)
C14_NoSwallowedErrors ==
    response.status = 500 => response.error = caught

\* The names the loop resolves to a constant address.
ConstantNames == {"systemProgram", "tokenProgram"}

(* C15 (as claimed): signer rule.  A requirement that is a signer, is not  *)
(* mutable and has no constant name resolves to the address of the key     *)
(* generated for its role name when there is one, and to the address of    *)
(* the payer otherwise.                                                    *)
C15_SignerRule ==
    \A j \in 1..(idx - 1) :
        LET acc == accounts[j]
        IN /\ DistinctNames(accounts)
           /\ acc.isSigner /\ ~acc.isMut
           /\ acc.name \notin ConstantNames
           => Get(result, acc.name) =
                 IF acc.name \in DOMAIN gkeypairs
                   THEN publicKey(gkeypairs[acc.name])
                   ELSE publicKey(gpayer)

(* C16 (as claimed): optional rule.  An optional requirement that no other *)
(* rule resolves (its name is not a constant, no key was generated for its *)
(* role, it is neither mutable nor a signer) resolves to the absent        *)
(* marker: never to the address of the payer, never to a new account.      *)
C16_OptionalRule ==
    \A j \in 1..(idx - 1) :
        LET acc == accounts[j]
        IN /\ DistinctNames(accounts)
           /\ acc.isOptional
           /\ ~acc.isMut /\ ~acc.isSigner
           /\ acc.name \notin ConstantNames
           /\ acc.name \notin DOMAIN gkeypairs
           => /\ Get(result, acc.name) = NullAddr
              /\ Get(result, acc.name) # publicKey(gpayer)
              /\ ~HasKey(instructions, acc.name \o "Ix")

\* The constant address of a constant name.
ConstantAddress(name) ==
    IF name = "systemProgram" THEN SystemProgramId ELSE TOKEN_PROGRAM_ID

(* C17: constant precedence.  Every requirement named systemProgram or     *)
(* tokenProgram that the loop has passed is resolved to that constant      *)
(* address, whatever its flags, and no create-account instruction exists   *)
(* for it; the loop never waits for the rent of such an account.           *)
C17_ConstantPrecedence ==
    /\ \A j \in 1..(idx - 1) :
          accounts[j].name \in ConstantNames =>
              /\ Get(result, accounts[j].name) = ConstantAddress(accounts[j].name)
              /\ ~HasKey(instructions, accounts[j].name \o "Ix")
    /\ gpc = "awaitRent" => accounts[idx].name \notin ConstantNames

\* The request succeeded for a descriptor with a mutable signer
\* systemProgram and a mutable tokenProgram.
C17_Witness ==
    /\ response.status = 200
    /\ Len(accounts) = 2
    /\ accounts[1] = Field("systemProgram", TRUE, TRUE, FALSE)
    /\ accounts[2] = Field("tokenProgram", TRUE, FALSE, FALSE)
    /\ Get(response.data, "systemProgram") = SystemProgramId
    /\ Get(response.data, "tokenProgram") = TOKEN_PROGRAM_ID

(* C18: default size.  Every account created for a role whose upper-cased  *)
(* name is not a key of ACCOUNT_SIZES has the default size of 1024 bytes,  *)
(* and every created account has a size above zero.                        *)
C18_DefaultSize ==
    \A j \in 1..Len(instructions) :
        LET role == RoleOfIx(instructions[j].key)
            ix == instructions[j].value
        IN /\ toUpperCase(role) \notin DOMAIN ACCOUNT_SIZES => ix.space = DEFAULT_SIZE
           /\ (\A key \in DOMAIN ACCOUNT_SIZES : ~NamesEntry(role, key)) =>
                 ix.space = DEFAULT_SIZE
           /\ ix.space > 0

\* The request succeeded and created an account for quoteMint, a name the
\* table has no entry for, with 1024 bytes, next to one of a table size.
C18_Witness ==
    /\ response.status = 200
    /\ HasKey(instructions, "quoteMintIx")
    /\ Get(instructions, "quoteMintIx").space = DEFAULT_SIZE
    /\ HasKey(instructions, "bidsIx")
    /\ Get(instructions, "bidsIx").space = ACCOUNT_SIZES["BIDS"]

\* Every attempt the call is allowed was made and failed transiently.
AllAttemptsFailedTransiently ==
    /\ maxRetries >= 1
    /\ Len(attemptLog) = maxRetries
    /\ \A n \in DOMAIN attemptLog : attemptLog[n] \in TransientErrors

(* C19 (as claimed): retry exhaustion.  When each of the maxRetries        *)
(* attempts has failed transiently, the call is over, no delay was taken   *)
(* after the last attempt (one delay per earlier attempt), and it has      *)
(* thrown RetryExhausted with the number of attempts made.                 *)
C19_RetryExhaustion ==
    AllAttemptsFailedTransiently =>
        /\ rpc = "done"
        /\ attempts = maxRetries
        /\ Len(delays) = maxRetries - 1
        /\ rresult = [kind |-> "threw", error |-> "RetryExhausted",
                      attempts |-> maxRetries]

(* C21: zero-attempt edge.  A call with maxRetries <= 0 that has started   *)
(* is over: it requested no airdrop, took no delay and threw 'All airdrop  *)
(* attempts failed'.  A call with maxRetries >= 1 never throws that error: *)
(* it returns a signature or throws the error of an attempt.               *)
C21_ZeroAttemptEdge ==
    /\ (maxRetries <= 0 /\ rpc # "entry") =>
          /\ rpc = "done"
          /\ attempts = 0 /\ airdrops = << >> /\ attemptLog = << >>
          /\ delays = << >>
          /\ rresult = [kind |-> "threw", error |-> "AllAirdropAttemptsFailed"]
    /\ maxRetries >= 1 =>
          rresult # [kind |-> "threw", error |-> "AllAirdropAttemptsFailed"]

\* A call with no attempt allowed has ended with the final error.
C21_Witness ==
    /\ maxRetries <= 0
    /\ rpc = "done"
    /\ attempts = 0
    /\ rresult = [kind |-> "threw", error |-> "AllAirdropAttemptsFailed"]

(* C22: freshness token reuse.  executeTransaction receives at most one    *)
(* blockhash; it has it before the setup transaction is signed and sent,   *)
(* and the main transaction exists only after the confirmation wait of the *)
(* setup transaction is over and carries that same blockhash, the one of   *)
(* the setup transaction.                                                  *)
C22_BlockhashReuse ==
    /\ blockhashFetches <= 1
    /\ Signed(setupTx) =>
          /\ blockhashFetches = 1
          /\ setupTx.recentBlockhash = blockhash
    /\ mainTx # NoTx =>
          /\ setupTx.status \in {"confirmed", "failed"}
          /\ blockhashFetches = 1
          /\ mainTx.recentBlockhash = blockhash
          /\ mainTx.recentBlockhash = setupTx.recentBlockhash

\* Both transactions are on the ledger with the second of the blockhashes
\* the network may give, fetched once.
C22_Witness ==
    /\ OnLedger(setupTx) /\ OnLedger(mainTx)
    /\ blockhashFetches = 1
    /\ blockhash = 2
    /\ mainTx.recentBlockhash = 2

=============================================================================
